---- MODULE Spec2Model ----
(***************************************************************************)
(* A model of the RecomPI python client (src/recompi/recompi.py): the      *)
(* value types Tag, Profile, SecureProfile, Location and Geo with their    *)
(* validation and JSON conversion, the response wrapper, and the client    *)
(* operations push, recom and verify.                                      *)
(*                                                                         *)
(* Python values are records tagged with their class in field t.  The     *)
(* primitives share one shape [t, s, n]: s is the text of a str, n the     *)
(* number of an int, bool (0/1) or float.  A dict is a function from its   *)
(* keys (strings) to values; a list is [t |-> "list", items |-> sequence]. *)
(***************************************************************************)
EXTENDS Integers, Sequences, FiniteSets, TLC

VARIABLES client, call, ret, defaultHeaders, other, transport, nsent, npassed

vars == <<client, call, ret, defaultHeaders, other, transport, nsent, npassed>>

(***************************************************************************)
(* Bounds of the model.                                                    *)
(***************************************************************************)
MaxTags == 2
MaxProfiles == 2
MaxLabels == 2
MaxRequests == 3

(***************************************************************************)
(* Python values.                                                          *)
(***************************************************************************)
PyNone == [t |-> "none", s |-> "", n |-> 0]

PyStr(x) == [t |-> "str", s |-> x, n |-> 0]

PyInt(x) == [t |-> "int", s |-> "", n |-> x]

PyBool(b) == [t |-> "bool", s |-> "", n |-> IF b THEN 1 ELSE 0]

PyFloat(x) == [t |-> "float", s |-> "", n |-> x]

PyList(items) == [t |-> "list", items |-> items]

EmptyDict == [k \in {} |-> PyNone]

\* bool(v): None, "", 0, False and the empty list are falsy; the classes of
\* this module define neither __bool__ nor __len__, so their instances are truthy.
Truthy(v) ==
    CASE v.t = "none" -> FALSE
      [] v.t = "str" -> v.s # ""
      [] v.t \in {"int", "bool", "float"} -> v.n # 0
      [] v.t = "list" -> Len(v.items) > 0
      [] OTHER -> TRUE

\* isinstance(v, cls): bool is a subclass of int, SecureProfile of Profile.
IsInstance(v, cls) ==
    CASE cls = "int" -> v.t \in {"int", "bool"}
      [] cls = "Profile" -> v.t \in {"Profile", "SecureProfile"}
      [] OTHER -> v.t = cls

\* RecomPIFieldTypeError.if_not_validated: TRUE when it returns, FALSE when
\* it raises RecomPIFieldTypeError.
Validated(value, as_, is_array) ==
    IF ~IsInstance(value, IF is_array THEN "list" ELSE as_)
    THEN FALSE
    ELSE IF is_array
         THEN \A index \in 1..Len(value.items) : IsInstance(value.items[index], as_)
         ELSE TRUE

\* The two exception classes and the outcome of a call.
FieldTypeError == "RecomPIFieldTypeError"

GeneralError == "RecomPIException"

Ok(v) == [outcome |-> "ok", value |-> v]

Raise(e) == [outcome |-> e, value |-> PyNone]

\* hashlib.sha256(text.encode()).hexdigest(): a collision-free digest of text,
\* different from every text the model hashes.
Sha256Hex(text) == "sha256(" \o text \o ")"

(***************************************************************************)
(* Tag                                                                     *)
(***************************************************************************)
\* A Tag whose desc falls back to the name whenever desc is falsy.
TagInit_desc_or_name(id, name, desc) ==
    LET d == IF Truthy(desc) THEN desc ELSE name
    IN  IF ~Validated(id, "str", FALSE) THEN Raise(FieldTypeError)
        ELSE IF ~Validated(name, "str", FALSE) THEN Raise(FieldTypeError)
        ELSE IF ~Validated(d, "str", FALSE) THEN Raise(FieldTypeError)
        ELSE IF ~Truthy(id) \/ ~Truthy(name) THEN Raise(GeneralError)
        ELSE Ok([t |-> "Tag", id |-> id, name |-> name, desc |-> d])

TagInit(id, name, desc) ==
    LET d == IF desc.t # "none" THEN desc ELSE name
    IN  IF ~Validated(id, "str", FALSE) THEN Raise(FieldTypeError)
        ELSE IF ~Validated(name, "str", FALSE) THEN Raise(FieldTypeError)
        ELSE IF ~Validated(d, "str", FALSE) THEN Raise(FieldTypeError)
        ELSE IF ~Truthy(id) \/ ~Truthy(name) THEN Raise(GeneralError)
        ELSE Ok([t |-> "Tag", id |-> id, name |-> name, desc |-> d])

TagToJson(self) == [id |-> self.id, name |-> self.name, desc |-> self.desc]

(***************************************************************************)
(* Profile and SecureProfile                                               *)
(***************************************************************************)
ProfileInit(cls, name, id) ==
    IF ~Validated(id, "str", FALSE) THEN Raise(FieldTypeError)
    ELSE IF ~Validated(name, "str", FALSE) THEN Raise(FieldTypeError)
    ELSE IF ~Truthy(id) \/ ~Truthy(name) THEN Raise(GeneralError)
    ELSE Ok([t |-> cls, name |-> name, id |-> id])

ProfileToJson(self) == (self.name.s :> self.id)

SecureProfileToJson(self, hash_salt) ==
    LET base == ProfileToJson(self)
    IN  [nm \in DOMAIN base |->
            PyStr(Sha256Hex(base[nm].s \o (IF Truthy(hash_salt) THEN hash_salt.s ELSE "")))]

(***************************************************************************)
(* Location                                                                *)
(***************************************************************************)
LocationInit(ip, url, referer, useragent) ==
    IF ~Truthy(ip) /\ ~Truthy(url) /\ ~Truthy(referer) /\ ~Truthy(useragent)
    THEN Raise(GeneralError)
    ELSE IF Truthy(ip) /\ ~Validated(ip, "str", FALSE) THEN Raise(FieldTypeError)
    ELSE IF Truthy(url) /\ ~Validated(url, "str", FALSE) THEN Raise(FieldTypeError)
    ELSE IF Truthy(referer) /\ ~Validated(referer, "str", FALSE) THEN Raise(FieldTypeError)
    ELSE IF Truthy(useragent) /\ ~Validated(useragent, "str", FALSE) THEN Raise(FieldTypeError)
    ELSE Ok([t |-> "Location", ip |-> ip, url |-> url, referer |-> referer,
             useragent |-> useragent])

\* A to_json that emits every field that is not None.
LocationToJson_not_none(self) ==
    LET attr == [ip |-> self.ip, url |-> self.url, referer |-> self.referer,
                 useragent |-> self.useragent]
    IN  [k \in {f \in DOMAIN attr : attr[f].t # "none"} |-> attr[k]]

LocationToJson(self) ==
    LET attr == [ip |-> self.ip, url |-> self.url, referer |-> self.referer,
                 useragent |-> self.useragent]
    IN  [k \in {f \in DOMAIN attr : Truthy(attr[f])} |-> attr[k]]

(***************************************************************************)
(* Geo                                                                     *)
(***************************************************************************)
GeoInit(country, province) ==
    IF ~Validated(country, "str", FALSE) THEN Raise(FieldTypeError)
    ELSE IF ~Validated(province, "str", FALSE) THEN Raise(FieldTypeError)
    ELSE IF ~Truthy(country) /\ ~Truthy(province) THEN Raise(GeneralError)
    ELSE Ok([t |-> "Geo", country |-> country, province |-> province])

GeoToJson(self) ==
    LET attr == [country |-> self.country, province |-> self.province]
    IN  [k \in {f \in DOMAIN attr : Truthy(attr[f])} |-> attr[k]]

(***************************************************************************)
(* RecomPIResponse                                                         *)
(***************************************************************************)
\* A requests.Response: its status_code, its text, and whether json() decodes
\* the body (and to what).
Response(status_code, text, json_ok, json) ==
    [t |-> "Response", status_code |-> status_code, text |-> text,
     json_ok |-> json_ok, json |-> json]

\* A wrapper whose constructor lets the failure of response.json() escape.
RecomPIResponseInit_strict(version, response) ==
    IF ~Validated(response, "Response", FALSE) THEN Raise(FieldTypeError)
    ELSE IF ~response.json_ok THEN Raise("ValueError")
    ELSE Ok([t |-> "RecomPIResponse", version |-> version,
             status |-> response.status_code,
             body |-> response.json])

RecomPIResponseInit(version, response) ==
    IF ~Validated(response, "Response", FALSE) THEN Raise(FieldTypeError)
    ELSE Ok([t |-> "RecomPIResponse", version |-> version,
             status |-> response.status_code,
             body |-> IF response.json_ok THEN response.json ELSE response.text])

\* A success test whose upper bound is inclusive.
is_success_inclusive(self) ==
    IsInstance(self.status, "int") /\ self.status.n >= 200 /\ self.status.n <= 300

is_success(self) ==
    IsInstance(self.status, "int") /\ self.status.n >= 200 /\ self.status.n < 300

(***************************************************************************)
(* RecomPI, the client                                                     *)
(***************************************************************************)
\* A constructor that rejects negative versions only.
RecomPIInit_negative_only(api_key, version, secure_url, hash_salt) ==
    IF ~Validated(api_key, "str", FALSE) THEN Raise(FieldTypeError)
    ELSE IF ~Validated(version, "int", FALSE) THEN Raise(FieldTypeError)
    ELSE IF ~Validated(secure_url, "bool", FALSE) THEN Raise(FieldTypeError)
    ELSE IF version.n < 0 THEN Raise(GeneralError)
    ELSE IF hash_salt.t # "none" /\ ~Validated(hash_salt, "str", FALSE)
         THEN Raise(FieldTypeError)
    ELSE Ok([t |-> "RecomPI", api_key |-> api_key, version |-> version,
             hash_salt |-> hash_salt,
             BASE_URL |-> IF ~Truthy(secure_url) THEN "http://api.recompi.com"
                          ELSE "https://api.recompi.com"])

RecomPIInit(api_key, version, secure_url, hash_salt) ==
    IF ~Validated(api_key, "str", FALSE) THEN Raise(FieldTypeError)
    ELSE IF ~Validated(version, "int", FALSE) THEN Raise(FieldTypeError)
    ELSE IF ~Validated(secure_url, "bool", FALSE) THEN Raise(FieldTypeError)
    ELSE IF version.n <= 0 THEN Raise(GeneralError)
    ELSE IF hash_salt.t # "none" /\ ~Validated(hash_salt, "str", FALSE)
         THEN Raise(FieldTypeError)
    ELSE Ok([t |-> "RecomPI", api_key |-> api_key, version |-> version,
             hash_salt |-> hash_salt,
             BASE_URL |-> IF ~Truthy(secure_url) THEN "http://api.recompi.com"
                          ELSE "https://api.recompi.com"])

\* Headers in which the default Content-Type is appended to the value the
\* mapping already holds.
RequestHeaders_accumulate(headers) ==
    ("Content-Type" :> ((IF "Content-Type" \in DOMAIN headers
                         THEN headers["Content-Type"] ELSE "") \o "application/json"))
        @@ headers

\* The headers _request sends: the mapping it was given, with the default
\* Content-Type stored into it when the key is missing.
RequestHeaders(headers) ==
    IF "Content-Type" \in DOMAIN headers THEN headers
    ELSE ("Content-Type" :> "application/json") @@ headers

\* The call _request hands to requests.request.
Request(self, method, endpoint, data, headers) ==
    [method |-> method, url |-> self.BASE_URL \o "/" \o endpoint,
     headers |-> RequestHeaders(headers), json |-> data]

\* "<op>/v%d/%s" % (self.version, self.api_key)
Endpoint(self, op) == op \o "/v" \o ToString(self.version.n) \o "/" \o self.api_key.s

\* A merge in which the first dict that has a key keeps it.
RECURSIVE _list2dict_first_wins(_)
_list2dict_first_wins(arr) ==
    IF Len(arr) = 0 THEN EmptyDict
    ELSE LET d == arr[Len(arr)]
         IN  _list2dict_first_wins(SubSeq(arr, 1, Len(arr) - 1)) @@ d

\* merged_dict.update(d) for each d of arr, in order.
RECURSIVE _list2dict(_)
_list2dict(arr) ==
    IF Len(arr) = 0 THEN EmptyDict
    ELSE LET d == arr[Len(arr)]
         IN  d @@ _list2dict(SubSeq(arr, 1, Len(arr) - 1))

\* obj.to_json() called without arguments, dispatched on the class of obj.
ToJsonNoArgs(obj) ==
    CASE obj.t = "Tag" -> TagToJson(obj)
      [] obj.t = "Profile" -> ProfileToJson(obj)
      [] obj.t = "SecureProfile" -> SecureProfileToJson(obj, PyNone)
      [] obj.t = "Location" -> LocationToJson(obj)
      [] obj.t = "Geo" -> GeoToJson(obj)

\* The check _validate_profiles makes of one element of the list: "ok" or
\* the exception it raises.
ValidateProfile(profile) ==
    IF IsInstance(profile, "Profile")
    THEN IF Validated(profile, "Profile", FALSE) THEN "ok" ELSE FieldTypeError
    ELSE IF IsInstance(profile, "Profile")
    THEN IF Validated(profile, "SecureProfile", FALSE) THEN "ok" ELSE FieldTypeError
    ELSE GeneralError

\* A validation that looks at the first element of the list only.
_validate_profiles_first_only(profiles) ==
    IF ~IsInstance(profiles, "list") THEN GeneralError
    ELSE IF ~Truthy(profiles) THEN GeneralError
    ELSE ValidateProfile(profiles.items[1])

\* "ok" when _validate_profiles returns, else the exception it raises.
_validate_profiles(profiles) ==
    IF ~IsInstance(profiles, "list") THEN GeneralError
    ELSE IF ~Truthy(profiles) THEN GeneralError
    ELSE LET bad == {i \in 1..Len(profiles.items) : ValidateProfile(profiles.items[i]) # "ok"}
         IN  IF bad = {} THEN "ok"
             ELSE ValidateProfile(profiles.items[CHOOSE i \in bad : \A j \in bad : i <= j])

\* What a validated call hands to _request.
Send(method, endpoint, data) ==
    [outcome |-> "send", method |-> method, endpoint |-> endpoint, data |-> data]

push(self, label, tags, profiles, location, geo) ==
    LET tags1 == IF IsInstance(tags, "Tag") THEN PyList(<<tags>>) ELSE tags
        profiles1 == IF IsInstance(profiles, "Profile") THEN PyList(<<profiles>>)
                     ELSE profiles
        profiles2 == IF IsInstance(profiles1, "SecureProfile") THEN PyList(<<profiles1>>)
                     ELSE profiles1
    IN  IF ~Validated(label, "str", FALSE) THEN Raise(FieldTypeError)
        ELSE IF ~Validated(tags1, "Tag", TRUE) THEN Raise(FieldTypeError)
        ELSE IF _validate_profiles(profiles2) # "ok"
             THEN Raise(_validate_profiles(profiles2))
        ELSE IF ~Validated(location, "Location", FALSE) THEN Raise(FieldTypeError)
        ELSE IF Truthy(geo) /\ ~Validated(geo, "Geo", FALSE) THEN Raise(FieldTypeError)
        ELSE LET data == [label |-> label,
                          tags |-> [i \in 1..Len(tags1.items) |->
                                       ToJsonNoArgs(tags1.items[i])],
                          profiles |-> _list2dict([i \in 1..Len(profiles2.items) |->
                                       ToJsonNoArgs(profiles2.items[i])])]
                 loc == IF Truthy(location)
                        THEN ("location" :> ToJsonNoArgs(location)) ELSE EmptyDict
                 g == IF Truthy(geo) THEN ("geo" :> ToJsonNoArgs(geo)) ELSE EmptyDict
             IN  Send("post", Endpoint(self, "push"), g @@ loc @@ data)

\* A test that takes every profiles argument other than None as passed.
ProfilesProvided_not_none(profiles) == profiles.t # "none"

\* recom's test of whether profiles was passed (`if profiles:`).
ProfilesProvided(profiles) == Truthy(profiles)

\* A test that takes only None as a missing profiles argument.
NeitherProvided_none_only(profiles, geo) == profiles.t = "none" /\ ~Truthy(geo)

\* recom's test that neither profiles nor geo was passed.
NeitherProvided(profiles, geo) == ~Truthy(profiles) /\ ~Truthy(geo)

recom(self, labels, profiles, geo) ==
    LET labels1 == IF IsInstance(labels, "str") THEN PyList(<<labels>>) ELSE labels
        profiles1 == IF ProfilesProvided(profiles) /\ IsInstance(profiles, "Profile")
                     THEN PyList(<<profiles>>) ELSE profiles
    IN  IF ~Validated(labels1, "str", TRUE) THEN Raise(FieldTypeError)
        ELSE IF ProfilesProvided(profiles) /\ _validate_profiles(profiles1) # "ok"
             THEN Raise(_validate_profiles(profiles1))
        ELSE IF Truthy(geo) /\ ~Validated(geo, "Geo", FALSE) THEN Raise(FieldTypeError)
        ELSE IF NeitherProvided(profiles1, geo) THEN Raise(GeneralError)
        ELSE LET data == [labels |-> labels1.items]
                 p == IF Truthy(profiles1)
                      THEN ("profiles" :> _list2dict([i \in 1..Len(profiles1.items) |->
                                       ToJsonNoArgs(profiles1.items[i])]))
                      ELSE EmptyDict
                 g == IF Truthy(geo) THEN ("geo" :> ToJsonNoArgs(geo)) ELSE EmptyDict
             IN  Send("post", Endpoint(self, "recom"), g @@ p @@ data)

verify(self) == Send("get", Endpoint(self, "verify"), PyNone)

(***************************************************************************)
(* The arguments the calls of the model are made with.                     *)
(***************************************************************************)
\* All sequences over S of length at most n.
RECURSIVE SeqsUpTo(_, _)
SeqsUpTo(S, n) ==
    IF n = 0 THEN {<<>>}
    ELSE LET shorter == SeqsUpTo(S, n - 1)
         IN  shorter \cup {Append(q, x) : q \in {r \in shorter : Len(r) = n - 1}, x \in S}

TextArgs == {PyNone, PyStr(""), PyStr("a"), PyStr("b"), PyInt(0), PyInt(7)}

LocationArgs == {PyNone, PyStr(""), PyStr("a"), PyInt(0), PyInt(7)}

T1 == TagInit(PyStr("a"), PyStr("a"), PyNone).value

T2 == TagInit(PyStr("b"), PyStr("a"), PyStr("")).value

Pa == ProfileInit("Profile", PyStr("a"), PyStr("a")).value

Sa == ProfileInit("SecureProfile", PyStr("a"), PyStr("b")).value

Sb == ProfileInit("SecureProfile", PyStr("b"), PyStr("a")).value

L1 == LocationInit(PyStr("a"), PyNone, PyNone, PyStr("b")).value

G1 == GeoInit(PyStr("a"), PyStr("")).value

LabelArgs == {PyStr("a"), PyInt(7)}

TagsArgs ==
    {PyList(q) : q \in SeqsUpTo({T1, T2}, MaxTags)} \cup {T1, PyNone, PyList(<<T1, Pa>>)}

ProfilesArgs ==
    {PyList(q) : q \in SeqsUpTo({Pa, Sa, T1}, MaxProfiles)}
        \cup {PyList(<<Sb>>), PyList(<<Pa, Sb>>), PyList(<<Sb, Sa>>)}
        \cup {Pa, Sa, T1, PyNone}

LocationObjArgs == {L1, PyNone}

GeoArgs == {G1, PyNone, PyStr(""), T1}

LabelsArgs ==
    {PyList(q) : q \in SeqsUpTo({PyStr("a"), PyInt(7)}, MaxLabels)}
        \cup {PyStr("a"), PyInt(7), PyNone}

ApiKeyArgs == {PyStr("k"), PyInt(7), PyNone}

VersionArgs == {PyInt(2), PyInt(0), PyInt(-1), PyBool(TRUE), PyBool(FALSE), PyStr("2"),
                PyFloat(2), PyNone}

SecureUrlArgs == {PyBool(TRUE), PyBool(FALSE), PyInt(1), PyNone}

HashSaltArgs == {PyNone, PyStr("s"), PyStr(""), PyInt(7)}

\* What the transport does with a request: it returns a response or raises.
TransportResponses ==
    {Response(PyInt(st), PyStr("{}"), TRUE, EmptyDict) : st \in {200, 500}}
        \cup {Response(PyInt(st), PyStr("oops"), FALSE, PyNone) : st \in {200, 500}}

TransportError == "ConnectionError"

StatusArgs == {PyNone, PyInt(199), PyInt(200), PyInt(250), PyInt(299), PyInt(300),
               PyStr("200"), PyFloat(250), PyBool(TRUE)}

ResponseArgs ==
    {Response(st, PyStr("oops"), FALSE, PyNone) : st \in StatusArgs}
        \cup {Response(PyInt(200), PyStr("{}"), TRUE, EmptyDict), PyNone}

(***************************************************************************)
(* The state: the client the caller holds, the call being made with its    *)
(* outcome, what the method called on the returned object gave, and the    *)
(* dict that is the default value of the headers parameter of _request.    *)
(* Further: a second client the caller holds (None when there is none),    *)
(* what the transport did with the request of the call (None when the call *)
(* made no request), the number of requests handed to the transport and    *)
(* the number of client operations that reached their _request call.       *)
(***************************************************************************)
\* The transport raised instead of returning a response.
TransportRaised == [t |-> "raised", s |-> TransportError, n |-> 0]

\* A transport call that is repeated once when the server answers 500.
Transmit_retry(req, result) ==
    IF result.t = "Response" /\ result.status_code.n = 500 THEN <<req, req>>
    ELSE <<req>>

\* The requests.request invocations one _request call makes for req.
Transmit(req, result) == <<req>>

NoRet == [set |-> FALSE, arg |-> PyNone, v |-> PyNone]

Call(op, args, r, sent) ==
    [op |-> op, args |-> args, outcome |-> r.outcome, value |-> r.value, sent |-> sent]

Pending(op, args) == Call(op, args, Raise("pending"), <<>>)

\* The calls a caller can make.
Calls ==
    {Pending("Tag", <<id, name, desc>>) :
        id \in TextArgs, name \in TextArgs, desc \in TextArgs}
    \cup {Pending(cls, <<name, id>>) :
        cls \in {"Profile", "SecureProfile"}, name \in TextArgs, id \in TextArgs}
    \cup {Pending("Location", <<ip, url, referer, useragent>>) :
        ip \in LocationArgs, url \in LocationArgs, referer \in LocationArgs,
        useragent \in LocationArgs}
    \cup {Pending("Geo", <<country, province>>) :
        country \in TextArgs, province \in TextArgs}
    \cup {Pending("RecomPIResponse", <<PyInt(2), response>>) : response \in ResponseArgs}
    \cup {Pending("RecomPI", <<api_key, version, secure_url, hash_salt>>) :
        api_key \in ApiKeyArgs, version \in VersionArgs, secure_url \in SecureUrlArgs,
        hash_salt \in HashSaltArgs}
    \cup {Pending("push", <<label, tags, profiles, location, geo>>) :
        label \in LabelArgs, tags \in TagsArgs, profiles \in ProfilesArgs,
        location \in LocationObjArgs, geo \in GeoArgs}
    \cup {Pending("recom", <<labels, profiles, geo>>) :
        labels \in LabelsArgs, profiles \in ProfilesArgs, geo \in GeoArgs}
    \cup {Pending("verify", <<>>)}

\* The clients RecomPI(...) can return.
Clients ==
    {RecomPIInit(api_key, version, secure_url, hash_salt).value :
        api_key \in {k \in ApiKeyArgs : k.t = "str"},
        version \in {v \in VersionArgs : RecomPIInit(PyStr("k"), v, PyBool(TRUE), PyNone).outcome = "ok"},
        secure_url \in {u \in SecureUrlArgs : u.t = "bool"},
        hash_salt \in {h \in HashSaltArgs : h.t = "none" \/ (h.t = "str" /\ Truthy(h))}}

\* The default headers dict before and after the first request of the process.
HeadersStates == {EmptyDict, RequestHeaders(EmptyDict)}

ClientOps == {"push", "recom", "verify"}

\* A caller about to make one call: a client operation is made on a client
\* that was constructed before.
Init ==
    /\ call \in Calls
    /\ client \in Clients \cup {PyNone}
    /\ call.op \in ClientOps <=> client.t = "RecomPI"
    /\ defaultHeaders \in HeadersStates
    /\ ret = NoRet
    /\ other = PyNone
    /\ transport = PyNone
    /\ nsent = 0
    /\ npassed = 0

\* A constructor of a value type or of the response wrapper is called.
Construct(op, r) ==
    /\ call.outcome = "pending"
    /\ call.op = op
    /\ call' = Call(op, call.args, r, <<>>)
    /\ UNCHANGED <<client, ret, defaultHeaders, other, transport, nsent, npassed>>

NewTag == Construct("Tag", TagInit(call.args[1], call.args[2], call.args[3]))

NewProfile ==
    \E cls \in {"Profile", "SecureProfile"} :
        Construct(cls, ProfileInit(cls, call.args[1], call.args[2]))

NewLocation ==
    Construct("Location",
              LocationInit(call.args[1], call.args[2], call.args[3], call.args[4]))

NewGeo == Construct("Geo", GeoInit(call.args[1], call.args[2]))

NewRecomPIResponse ==
    Construct("RecomPIResponse", RecomPIResponseInit(call.args[1], call.args[2]))

\* obj.to_json() on the object the constructor returned; a SecureProfile
\* takes the salt as argument.
ToJson ==
    /\ call.outcome = "ok"
    /\ call.value.t \in {"Tag", "Profile", "SecureProfile", "Location", "Geo"}
    /\ ~ret.set
    /\ \E hash_salt \in {PyNone, PyStr(""), PyStr("s")} :
          /\ call.value.t # "SecureProfile" => hash_salt = PyNone
          /\ ret' = [set |-> TRUE, arg |-> hash_salt,
                     v |-> IF call.value.t = "SecureProfile"
                           THEN SecureProfileToJson(call.value, hash_salt)
                           ELSE ToJsonNoArgs(call.value)]
    /\ UNCHANGED <<client, call, defaultHeaders, other, transport, nsent, npassed>>

\* response.is_success() on the wrapper the call returned.
IsSuccess ==
    /\ call.outcome = "ok"
    /\ call.value.t = "RecomPIResponse"
    /\ ~ret.set
    /\ ret' = [set |-> TRUE, arg |-> PyNone, v |-> PyBool(is_success(call.value))]
    /\ UNCHANGED <<client, call, defaultHeaders, other, transport, nsent, npassed>>

NewRecomPI ==
    /\ call.outcome = "pending"
    /\ call.op = "RecomPI"
    /\ LET r == RecomPIInit(call.args[1], call.args[2], call.args[3], call.args[4])
       IN  /\ call' = Call("RecomPI", call.args, r, <<>>)
           /\ client' = IF r.outcome = "ok" THEN r.value ELSE client
    /\ UNCHANGED <<ret, defaultHeaders, other, transport, nsent, npassed>>

\* A client operation: r is what the operation computed before _request, an
\* exception or the request to send.  _request is called without headers, so
\* it works on (and stores Content-Type into) the default dict.
Operate(op, r) ==
    /\ call.outcome = "pending"
    /\ call.op = op
    /\ client.t = "RecomPI"
    /\ IF r.outcome # "send"
       THEN /\ call' = Call(op, call.args, r, <<>>)
            /\ transport' = PyNone
            /\ UNCHANGED <<defaultHeaders, nsent, npassed>>
       ELSE LET req == Request(client, r.method, r.endpoint, r.data, defaultHeaders)
            IN  /\ defaultHeaders' = req.headers
                /\ npassed' = npassed + 1
                /\ \E result \in TransportResponses \cup {TransportRaised} :
                      /\ transport' = result
                      /\ nsent' = nsent + Len(Transmit(req, result))
                      /\ call' = Call(op, call.args,
                                      IF result = TransportRaised
                                      THEN Raise(TransportError)
                                      ELSE RecomPIResponseInit(client.version, result),
                                      Transmit(req, result))
    /\ UNCHANGED <<client, ret, other>>

Push ==
    Operate("push", push(client, call.args[1], call.args[2], call.args[3],
                         call.args[4], call.args[5]))

Recom == Operate("recom", recom(client, call.args[1], call.args[2], call.args[3]))

Verify == Operate("verify", verify(client))

Next ==
    \/ NewTag
    \/ NewProfile
    \/ NewLocation
    \/ NewGeo
    \/ NewRecomPIResponse
    \/ ToJson
    \/ IsSuccess
    \/ NewRecomPI
    \/ Push
    \/ Recom
    \/ Verify

Spec == Init /\ [][Next]_vars

(***************************************************************************)
(* Sequences of client operations, on one or two clients, in a process     *)
(* that has made no request yet.                                           *)
(***************************************************************************)
SeqClients ==
    {RecomPIInit(PyStr("k"), PyInt(2), PyBool(TRUE), PyNone).value,
     RecomPIInit(PyStr("k"), PyBool(TRUE), PyBool(FALSE), PyStr("s")).value}

SeqCalls ==
    {Pending("push", <<label, PyList(<<T1>>), profiles, location, geo>>) :
        label \in {PyStr("a")}, profiles \in {Pa, PyList(<<Pa, Sa>>), PyList(<<>>)},
        location \in LocationObjArgs, geo \in {PyNone, G1}}
    \cup {Pending("recom", <<labels, profiles, geo>>) :
        labels \in {PyStr("a"), PyInt(7)}, profiles \in {PyNone, Sa, T1},
        geo \in {PyNone, G1}}
    \cup {Pending("verify", <<>>)}

SeqInit ==
    /\ client \in SeqClients
    /\ other \in SeqClients \cup {PyNone}
    /\ call = Call("none", <<>>, Raise("none"), <<>>)
    /\ ret = NoRet
    /\ defaultHeaders = EmptyDict
    /\ transport = PyNone
    /\ nsent = 0
    /\ npassed = 0

\* The caller makes the next call, on the client of the last call or on the
\* other client it holds.
NextCall ==
    /\ call.outcome # "pending"
    /\ nsent < MaxRequests
    /\ call' \in SeqCalls
    /\ \/ UNCHANGED <<client, other>>
       \/ /\ other.t = "RecomPI"
          /\ client' = other
          /\ other' = client
    /\ ret' = NoRet
    /\ transport' = PyNone
    /\ UNCHANGED <<defaultHeaders, nsent, npassed>>

SeqNext ==
    \/ NextCall
    \/ Push
    \/ Recom
    \/ Verify

SpecSeq == SeqInit /\ [][SeqNext]_vars

(***************************************************************************)
(* Properties                                                              *)
(***************************************************************************)
\* The call has returned or raised.
Done == call.outcome # "pending"

\* The call raised neither RecomPIFieldTypeError nor RecomPIException.
PassedValidation == Done /\ call.outcome \notin {FieldTypeError, GeneralError}

\* The elements of an argument that is one object or a list of objects.
Elements(arg) == IF arg.t = "list" THEN arg.items ELSE <<arg>>

NonEmptyStr(v) == v.t = "str" /\ v.s # ""

\* C1: a push whose arguments pass validation issues exactly one POST to
\* {baseUrl}/push/v{version}/{apiKey}; its body has the keys label, tags,
\* profiles and location, and geo iff a Geo was passed; tags are the tags'
\* to_json() in input order, and profiles maps each profile name to the entry
\* of the last profile of that name.
C1_PushRequest ==
    (call.op = "push" /\ PassedValidation) =>
        LET label == call.args[1]
            tags == Elements(call.args[2])
            profiles == Elements(call.args[3])
            location == call.args[4]
            geo == call.args[5]
            names == {profiles[i].name.s : i \in 1..Len(profiles)}
            lastOf(nm) == CHOOSE i \in 1..Len(profiles) :
                             /\ profiles[i].name.s = nm
                             /\ \A j \in (i + 1)..Len(profiles) : profiles[j].name.s # nm
        IN  /\ Len(call.sent) = 1
            /\ call.sent[1].method = "post"
            /\ call.sent[1].url = client.BASE_URL \o "/push/v"
                                      \o ToString(client.version.n) \o "/" \o client.api_key.s
            /\ LET body == call.sent[1].json
               IN  /\ DOMAIN body = {"label", "tags", "profiles", "location"}
                                        \cup (IF geo.t = "Geo" THEN {"geo"} ELSE {})
                   /\ body["label"] = label
                   /\ body["tags"] = [i \in 1..Len(tags) |-> TagToJson(tags[i])]
                   /\ DOMAIN body["profiles"] = names
                   /\ \A nm \in names :
                         body["profiles"][nm] = ToJsonNoArgs(profiles[lastOf(nm)])[nm]
                   /\ body["location"] = LocationToJson(location)
                   /\ geo.t = "Geo" => body["geo"] = GeoToJson(geo)

\* A push was sent with two tags, two profiles of the same name and a Geo.
C1_Witness ==
    /\ call.op = "push"
    /\ call.outcome = "ok"
    /\ call.args[2] = PyList(<<T2, T1>>)
    /\ call.args[3] = PyList(<<Pa, Sa>>)
    /\ call.args[5] = G1
    /\ Len(call.sent) = 1

\* C2: Geo built from exactly one of country/province as a non-empty string,
\* the other being None, is constructed, and its to_json() is the mapping of
\* the supplied field alone.
C2_GeoOneField ==
    (/\ call.op = "Geo"
     /\ Done
     /\ \/ NonEmptyStr(call.args[1]) /\ call.args[2].t = "none"
        \/ NonEmptyStr(call.args[2]) /\ call.args[1].t = "none") =>
        /\ call.outcome = "ok"
        /\ ret.set =>
              ret.v = IF NonEmptyStr(call.args[1]) THEN [country |-> call.args[1]]
                      ELSE [province |-> call.args[2]]

\* C3 as stated: the desc entry of a Tag's to_json() is the desc passed when
\* it is non-empty, and the name otherwise.
C3_DescOrName ==
    (call.op = "Tag" /\ call.outcome = "ok" /\ ret.set) =>
        ret.v = [id |-> call.args[1], name |-> call.args[2],
                 desc |-> IF Truthy(call.args[3]) THEN call.args[3] ELSE call.args[2]]

\* C3 amended: a Tag built from a non-empty string id, a non-empty string
\* name and a desc that is None or a string is constructed, and its to_json()
\* is {id, name, desc} with desc the desc passed whenever one was passed (the
\* empty string included) and the name only when desc is None.
C3_DescDefault ==
    /\ (/\ call.op = "Tag"
        /\ Done
        /\ NonEmptyStr(call.args[1])
        /\ NonEmptyStr(call.args[2])
        /\ call.args[3].t \in {"none", "str"}) => call.outcome = "ok"
    /\ (call.op = "Tag" /\ call.outcome = "ok" /\ ret.set) =>
          ret.v = [id |-> call.args[1], name |-> call.args[2],
                   desc |-> IF call.args[3].t # "none" THEN call.args[3]
                            ELSE call.args[2]]

\* to_json() was called on a Tag built with the empty string as desc.
C3_Witness ==
    /\ call.op = "Tag"
    /\ call.outcome = "ok"
    /\ call.args[3] = PyStr("")
    /\ ret.set

\* push's rule for profiles: one Profile or SecureProfile, or a non-empty
\* list of them.
ProfileRule(profiles) ==
    \/ profiles.t \in {"Profile", "SecureProfile"}
    \/ /\ profiles.t = "list"
       /\ Len(profiles.items) > 0
       /\ \A i \in 1..Len(profiles.items) :
             profiles.items[i].t \in {"Profile", "SecureProfile"}

\* One string or a list of strings.
LabelsValid(labels) ==
    \/ labels.t = "str"
    \/ labels.t = "list" /\ \A i \in 1..Len(labels.items) : labels.items[i].t = "str"

\* One Tag or a list of Tags.
TagsValid(tags) ==
    \/ tags.t = "Tag"
    \/ tags.t = "list" /\ \A i \in 1..Len(tags.items) : tags.items[i].t = "Tag"

\* A Geo, or a value recom and push take as no geo.
GeoValidOrAbsent(geo) == geo.t = "Geo" \/ geo \in {PyNone, PyStr("")}

\* C4 as stated: whenever recom's profiles argument is not None it must
\* satisfy push's rule, else recom raises RecomPIException and sends nothing.
C4_ProvidedProfilesValidated ==
    (/\ call.op = "recom"
     /\ Done
     /\ LabelsValid(call.args[1])
     /\ call.args[2].t # "none"
     /\ ~ProfileRule(call.args[2])) =>
        call.outcome = GeneralError /\ call.sent = <<>>

\* C4 amended: a profiles argument of recom that is a Profile, a
\* SecureProfile or a non-empty value is validated by push's rule (a violation
\* raises RecomPIException before any request, a conforming value is sent
\* under the profiles key); an empty list is taken as no profiles: with a
\* Geo the request is sent without a profiles key.
C4_TruthyProfilesValidated ==
    (call.op = "recom" /\ Done /\ LabelsValid(call.args[1])) =>
        /\ (Truthy(call.args[2]) /\ ~ProfileRule(call.args[2])) =>
              call.outcome = GeneralError /\ call.sent = <<>>
        /\ (ProfileRule(call.args[2]) /\ GeoValidOrAbsent(call.args[3])) =>
              /\ PassedValidation
              /\ Len(call.sent) = 1
              /\ "profiles" \in DOMAIN call.sent[1].json
        /\ (call.args[2] = PyList(<<>>) /\ call.args[3].t = "Geo") =>
              /\ PassedValidation
              /\ Len(call.sent) = 1
              /\ DOMAIN call.sent[1].json = {"labels", "geo"}

\* recom was called with an empty list of profiles and a Geo, and a request
\* was sent.
C4_Witness ==
    /\ call.op = "recom"
    /\ call.args[2] = PyList(<<>>)
    /\ call.args[3] = G1
    /\ Len(call.sent) = 1

\* C5: on a client built with a non-empty hash_salt s, every SecureProfile
\* passed to push or recom is sent as name -> sha256(id + s).
C5_SaltedSecureProfile ==
    (/\ call.op \in {"push", "recom"}
     /\ PassedValidation
     /\ NonEmptyStr(client.hash_salt)) =>
        LET arg == IF call.op = "push" THEN call.args[3] ELSE call.args[2]
            profiles == IF Truthy(arg) THEN Elements(arg) ELSE <<>>
        IN  \A i \in 1..Len(profiles) :
               (/\ profiles[i].t = "SecureProfile"
                /\ \A j \in (i + 1)..Len(profiles) :
                      profiles[j].name.s # profiles[i].name.s) =>
                   call.sent[1].json["profiles"][profiles[i].name.s]
                       = PyStr(Sha256Hex(profiles[i].id.s \o client.hash_salt.s))

\* C6: recom with valid labels and neither profiles nor geo (None or empty)
\* raises RecomPIException and sends no request.
C6_NeitherProfilesNorGeo ==
    (/\ call.op = "recom"
     /\ Done
     /\ LabelsValid(call.args[1])
     /\ call.args[2] \in {PyNone, PyList(<<>>)}
     /\ call.args[3] \in {PyNone, PyStr("")}) =>
        call.outcome = GeneralError /\ call.sent = <<>>

\* recom was called with a list of labels, an empty list of profiles and no geo.
C6_Witness ==
    /\ call.op = "recom"
    /\ Done
    /\ call.args[1] = PyList(<<PyStr("a"), PyStr("a")>>)
    /\ call.args[2] = PyList(<<>>)
    /\ call.args[3] = PyNone

\* C7: with label, tags and location valid, push raises RecomPIException
\* (sending nothing) when profiles breaks the rule, and does not raise it when
\* profiles is a Profile, a SecureProfile or a non-empty list of them: the
\* request is then sent unless geo is invalid.
C7_PushProfilesRule ==
    (/\ call.op = "push"
     /\ Done
     /\ call.args[1].t = "str"
     /\ TagsValid(call.args[2])
     /\ call.args[4].t = "Location") =>
        /\ ~ProfileRule(call.args[3]) =>
              call.outcome = GeneralError /\ call.sent = <<>>
        /\ ProfileRule(call.args[3]) =>
              /\ call.outcome # GeneralError
              /\ GeoValidOrAbsent(call.args[5]) =>
                    PassedValidation /\ Len(call.sent) = 1

\* push was called with a list whose second element is not a profile.
C7_Witness ==
    /\ call.op = "push"
    /\ Done
    /\ call.args[1].t = "str"
    /\ TagsValid(call.args[2])
    /\ call.args[3] = PyList(<<Pa, T1>>)
    /\ call.args[4].t = "Location"

\* C8: RecomPI(...) raises RecomPIFieldTypeError when api_key is not a str,
\* version not an int or secure_url not a bool; else RecomPIException when
\* version <= 0; else RecomPIFieldTypeError when hash_salt is neither None nor
\* a str; else it returns a client whose BASE_URL is the https address when
\* secure_url is True and the http address when it is False.  (bool being a
\* subclass of int, True and False count as the ints 1 and 0 for version.)
C8_ClientConstruction ==
    (call.op = "RecomPI" /\ Done) =>
        LET api_key == call.args[1]
            version == call.args[2]
            secure_url == call.args[3]
            hash_salt == call.args[4]
        IN  /\ call.outcome =
                 IF \/ api_key.t # "str"
                    \/ version.t \notin {"int", "bool"}
                    \/ secure_url.t # "bool"
                 THEN FieldTypeError
                 ELSE IF version.n <= 0 THEN GeneralError
                 ELSE IF hash_salt.t \notin {"none", "str"} THEN FieldTypeError
                 ELSE "ok"
            /\ call.outcome = "ok" =>
                  /\ client = call.value
                  /\ client.BASE_URL = IF secure_url = PyBool(TRUE)
                                       THEN "https://api.recompi.com"
                                       ELSE "http://api.recompi.com"
                  /\ client.api_key = api_key
                  /\ client.version = version
                  /\ client.hash_salt = hash_salt

\* A client was constructed with secure_url False.
C8_Witness ==
    /\ call.op = "RecomPI"
    /\ call.outcome = "ok"
    /\ call.args[3] = PyBool(FALSE)
    /\ client.t = "RecomPI"

\* C9: Location(...) raises RecomPIException when all four fields are None
\* or empty; the to_json() of a constructed Location has exactly the keys of
\* the fields that were set, each with the string passed, and is not empty.
C9_LocationJson ==
    call.op = "Location" =>
        LET field == [ip |-> call.args[1], url |-> call.args[2],
                      referer |-> call.args[3], useragent |-> call.args[4]]
            set == {f \in DOMAIN field : Truthy(field[f])}
        IN  /\ (Done /\ \A f \in DOMAIN field : field[f] \in {PyNone, PyStr("")}) =>
                  call.outcome = GeneralError
            /\ (call.outcome = "ok" /\ ret.set) =>
                  /\ DOMAIN ret.v = set
                  /\ \A f \in set : ret.v[f] = field[f] /\ ret.v[f].t = "str"
                  /\ ret.v # EmptyDict

\* to_json() was called on a Location built with ip set, url empty and
\* referer None.
C9_Witness ==
    /\ call.op = "Location"
    /\ call.outcome = "ok"
    /\ call.args[1] = PyStr("a")
    /\ call.args[2] = PyStr("")
    /\ call.args[3] = PyNone
    /\ ret.set

\* C10: is_success() is True iff the captured status is an integer s with
\* 200 <= s < 300.
C10_IsSuccess ==
    (call.outcome = "ok" /\ call.value.t = "RecomPIResponse" /\ ret.set) =>
        ret.v = PyBool(/\ call.value.status.t = "int"
                       /\ 200 <= call.value.status.n
                       /\ call.value.status.n < 300)

\* is_success() was called on a wrapper of status 300.
C10_Witness ==
    /\ call.op = "RecomPIResponse"
    /\ call.outcome = "ok"
    /\ call.value.status = PyInt(300)
    /\ ret.set

\* The request the call would send if it were the first request of the
\* process: built from the configuration of its client and its arguments alone.
FirstRequest ==
    LET r == CASE call.op = "push" ->
                     push(client, call.args[1], call.args[2], call.args[3],
                          call.args[4], call.args[5])
               [] call.op = "recom" ->
                     recom(client, call.args[1], call.args[2], call.args[3])
               [] call.op = "verify" -> verify(client)
    IN  [method |-> r.method,
         url |-> client.BASE_URL \o "/" \o r.endpoint,
         headers |-> ("Content-Type" :> "application/json"),
         json |-> r.data]

\* C11: no step of a sequence of push/recom/verify calls on one or two
\* clients changes a client's api_key, version, BASE_URL or hash_salt, and
\* every request a call emits (method, URL, headers, JSON body) is the one it
\* would emit as the first call, with headers exactly
\* {Content-Type: application/json}.
C11_NoSharedState ==
    [][/\ {client', other'} = {client, other}
       /\ \A i \in 1..Len(call'.sent) : call'.sent[i] = FirstRequest']_vars

\* A request was sent on a client while the caller holds a second, different
\* client, after two earlier requests.
C11_Witness ==
    /\ nsent = 3
    /\ Len(call.sent) = 1
    /\ call.op = "push"
    /\ other.t = "RecomPI"
    /\ other # client

\* C12: whatever response the transport returns to a validated push, recom
\* or verify call, the call returns a RecomPIResponse without raising; its
\* status is the status code of the response, its body the decoded JSON when
\* json() succeeds and the text otherwise, and is_success() is False for a
\* status outside [200, 300).
C12_ResponseWrapped ==
    (call.op \in ClientOps /\ Done /\ transport.t = "Response") =>
        /\ call.outcome = "ok"
        /\ call.value.t = "RecomPIResponse"
        /\ call.value.status = transport.status_code
        /\ call.value.body = IF transport.json_ok THEN transport.json ELSE transport.text
        /\ ret.set =>
              ret.v = PyBool(200 <= transport.status_code.n
                             /\ transport.status_code.n < 300)

\* is_success() was called on the wrapper of a response of status 500 whose
\* body is not JSON.
C12_Witness ==
    /\ call.op = "recom"
    /\ transport.t = "Response"
    /\ transport.status_code = PyInt(500)
    /\ ~transport.json_ok
    /\ ret.set
    /\ ret.v = PyBool(FALSE)

\* C13: in any sequence of push/recom/verify calls, a call that raised
\* RecomPIFieldTypeError or RecomPIException made no request, a call that
\* passed validation made exactly one, and the number of requests handed to
\* the transport is the number of calls that passed validation.
C13_ValidationBeforeTransmission ==
    /\ (call.op \in ClientOps /\ call.outcome \in {FieldTypeError, GeneralError}) =>
          call.sent = <<>> /\ transport = PyNone
    /\ (call.op \in ClientOps /\ PassedValidation) =>
          Len(call.sent) = 1 /\ transport # PyNone
    /\ nsent = npassed

\* A call raised RecomPIException after two earlier calls had each sent a
\* request.
C13_Witness ==
    /\ call.op = "push"
    /\ call.outcome = GeneralError
    /\ nsent = 2
    /\ npassed = 2

====
